---- MODULE Spec2Model ----
(***************************************************************************)
(* Model of attendance_analyzer.py: the event normalizer (sorted by        *)
(* datetime, remove_duplicates), the pairing loop of calculate_work_hours, *)
(* its terminal handling of an open In against the wall clock, the         *)
(* aggregate totals, and determine_day_status.                             *)
(*                                                                         *)
(* A datetime is an integer count of minutes (parse_time produces minute-  *)
(* granular datetimes); its calendar date is the day it falls in.  None is *)
(* a value outside the datetimes.                                          *)
(***************************************************************************)
EXTENDS Integers, Sequences, FiniteSets

\* ---------------------------------------------------------------- bounds
\* longest input list handed to calculate_work_hours
MaxLen == 4
\* datetimes of the events range over 0..MaxTime
MaxTime == 3
\* longest input list whose permutations are compared (SpecPerm)
MaxPermLen == 3
\* largest total_minutes handed to determine_day_status in SpecStatus
MaxTotal == 600

\* ------------------------------------------------------------- constants
None == -1
MinutesPerHour == 60
SecondsPerMinute == 60
FullDayHours == 8
HalfDayHours == 4

\* the model's day: the datetimes 0..MaxTime-1 are one calendar date and
\* MaxTime is the following one
DayLen == MaxTime
Times == 0..MaxTime
Clock == 0..MaxTime
Kinds == {"In", "Out"}
Events == [datetime : Times, type : Kinds]

\* datetime.date()
Date(t) == t \div DayLen

\* all lists of at most n elements of S
SeqsUpTo(S, n) == UNION {[1..k -> S] : k \in 0..n}

Min(S) == CHOOSE x \in S : \A y \in S : x <= y
Max(S) == CHOOSE x \in S : \A y \in S : x >= y

\* ------------------------------------------------------------ normalizer
\* sorted(entries, key=lambda x: x['datetime']): ascending by datetime and
\* stable, i.e. the entries of one datetime keep their input order
RECURSIVE SortKeys(_, _)
SortKeys(es, keys) ==
    IF keys = {} THEN <<>>
    ELSE LET k == Min(keys)
         IN  SelectSeq(es, LAMBDA e : e.datetime = k) \o SortKeys(es, keys \ {k})

\* a sort that is ascending but not stable: it reverses the entries of one
\* datetime
RECURSIVE SortKeysReversingTies(_, _)
SortKeysReversingTies(es, keys) ==
    IF keys = {} THEN <<>>
    ELSE LET k == Min(keys)
             grp == SelectSeq(es, LAMBDA e : e.datetime = k)
         IN  [j \in 1..Len(grp) |-> grp[Len(grp) + 1 - j]]
             \o SortKeysReversingTies(es, keys \ {k})

sortedReversingTies(es) ==
    SortKeysReversingTies(es, {es[j].datetime : j \in 1..Len(es)})

sorted(es) == SortKeys(es, {es[j].datetime : j \in 1..Len(es)})

\* the loop of remove_duplicates from position j on, with the keys seen so
\* far and the entries kept so far
RECURSIVE DedupFrom(_, _, _, _)
DedupFrom(es, j, seen, unique_entries) ==
    IF j > Len(es) THEN unique_entries
    ELSE LET key == <<es[j].datetime, es[j].type>>
         IN  IF key \notin seen
             THEN DedupFrom(es, j + 1, seen \cup {key}, Append(unique_entries, es[j]))
             ELSE DedupFrom(es, j + 1, seen, unique_entries)

\* remove_duplicates with the datetime alone as the key
RECURSIVE DedupByDatetimeFrom(_, _, _, _)
DedupByDatetimeFrom(es, j, seen, unique_entries) ==
    IF j > Len(es) THEN unique_entries
    ELSE LET key == es[j].datetime
         IN  IF key \notin seen
             THEN DedupByDatetimeFrom(es, j + 1, seen \cup {key},
                                      Append(unique_entries, es[j]))
             ELSE DedupByDatetimeFrom(es, j + 1, seen, unique_entries)

remove_duplicates_by_datetime(es) == DedupByDatetimeFrom(es, 1, {}, <<>>)

\* remove_duplicates that compares each entry with the one before it only
RECURSIVE DedupAdjacentFrom(_, _, _)
DedupAdjacentFrom(es, j, unique_entries) ==
    IF j > Len(es) THEN unique_entries
    ELSE IF j > 1 /\ es[j] = es[j - 1]
         THEN DedupAdjacentFrom(es, j + 1, unique_entries)
         ELSE DedupAdjacentFrom(es, j + 1, Append(unique_entries, es[j]))

remove_adjacent_duplicates(es) == DedupAdjacentFrom(es, 1, <<>>)

remove_duplicates(es) == DedupFrom(es, 1, {}, <<>>)

\* the sort without the call of remove_duplicates
SortOnly(es) == sorted(es)

\* lines 91-92 of calculate_work_hours
Normalize(es) == remove_duplicates(sorted(es))

\* --------------------------------------------------------- pairing loop
\* the difference taken the wrong way round
DurationMinutesReversed(later, earlier) ==
    ((earlier - later) * SecondsPerMinute) \div SecondsPerMinute

\* (later - earlier).total_seconds() / 60
DurationMinutes(later, earlier) ==
    ((later - earlier) * SecondsPerMinute) \div SecondsPerMinute

\* the locals of calculate_work_hours as set before the loop
InitLocals ==
    [work_sessions |-> <<>>, breaks |-> <<>>, current_in |-> None,
     last_out |-> None, first_in |-> None]

\* ProcessIn with the break's end copied from last_out instead of the new In
ProcessInBreakEndsAtLastOut(st, entry) ==
    IF st.current_in = None
    THEN LET cin == entry.datetime
         IN  [st EXCEPT
                !.current_in = cin,
                !.first_in = IF st.first_in = None THEN cin ELSE st.first_in,
                !.breaks = IF st.last_out # None
                           THEN Append(st.breaks,
                                       [start |-> st.last_out, end |-> st.last_out,
                                        duration_minutes |-> DurationMinutes(cin, st.last_out)])
                           ELSE st.breaks]
    ELSE st

\* ProcessIn that takes every In as the open In, also when one is open
ProcessInRestartsOnEveryIn(st, entry) ==
    LET cin == entry.datetime
    IN  [st EXCEPT
           !.current_in = cin,
           !.first_in = IF st.first_in = None THEN cin ELSE st.first_in,
           !.breaks = IF st.last_out # None /\ st.current_in = None
                      THEN Append(st.breaks,
                                  [start |-> st.last_out, end |-> cin,
                                   duration_minutes |-> DurationMinutes(cin, st.last_out)])
                      ELSE st.breaks]

\* ProcessIn that emits the break outside the test of current_in
ProcessInBreakOnEveryIn(st, entry) ==
    LET cin == entry.datetime
        brks == IF st.last_out # None
                THEN Append(st.breaks,
                            [start |-> st.last_out, end |-> cin,
                             duration_minutes |-> DurationMinutes(cin, st.last_out)])
                ELSE st.breaks
    IN  IF st.current_in = None
        THEN [st EXCEPT
                !.current_in = cin,
                !.first_in = IF st.first_in = None THEN cin ELSE st.first_in,
                !.breaks = brks]
        ELSE [st EXCEPT !.breaks = brks]

\* ProcessIn that sets first_in at every In that opens a session
ProcessInResetsFirstIn(st, entry) ==
    IF st.current_in = None
    THEN LET cin == entry.datetime
         IN  [st EXCEPT
                !.current_in = cin,
                !.first_in = cin,
                !.breaks = IF st.last_out # None
                           THEN Append(st.breaks,
                                       [start |-> st.last_out, end |-> cin,
                                        duration_minutes |-> DurationMinutes(cin, st.last_out)])
                           ELSE st.breaks]
    ELSE st

\* the branch entry['type'] == 'In'
ProcessIn(st, entry) ==
    IF st.current_in = None
    THEN LET cin == entry.datetime
         IN  [st EXCEPT
                !.current_in = cin,
                !.first_in = IF st.first_in = None THEN cin ELSE st.first_in,
                !.breaks = IF st.last_out # None
                           THEN Append(st.breaks,
                                       [start |-> st.last_out, end |-> cin,
                                        duration_minutes |-> DurationMinutes(cin, st.last_out)])
                           ELSE st.breaks]
    ELSE st

\* ProcessOut that forgets to clear the open In after closing a session
ProcessOutKeepsOpenIn(st, entry) ==
    IF st.current_in # None
    THEN [st EXCEPT
            !.work_sessions = Append(st.work_sessions,
                                     [start |-> st.current_in, end |-> entry.datetime,
                                      duration_minutes |->
                                          DurationMinutes(entry.datetime, st.current_in),
                                      ongoing |-> FALSE]),
            !.last_out = entry.datetime]
    ELSE [st EXCEPT !.last_out = entry.datetime]

\* ProcessOut that does nothing on an Out with no open In
ProcessOutIgnoresOrphan(st, entry) ==
    IF st.current_in # None
    THEN [st EXCEPT
            !.work_sessions = Append(st.work_sessions,
                                     [start |-> st.current_in, end |-> entry.datetime,
                                      duration_minutes |->
                                          DurationMinutes(entry.datetime, st.current_in),
                                      ongoing |-> FALSE]),
            !.last_out = entry.datetime,
            !.current_in = None]
    ELSE st

\* ProcessOut that puts the new session at the head of the list
ProcessOutPrependsSession(st, entry) ==
    IF st.current_in # None
    THEN [st EXCEPT
            !.work_sessions = <<[start |-> st.current_in, end |-> entry.datetime,
                                 duration_minutes |->
                                     DurationMinutes(entry.datetime, st.current_in),
                                 ongoing |-> FALSE]>> \o st.work_sessions,
            !.last_out = entry.datetime,
            !.current_in = None]
    ELSE [st EXCEPT !.last_out = entry.datetime]

\* the branch entry['type'] == 'Out'
ProcessOut(st, entry) ==
    IF st.current_in # None
    THEN [st EXCEPT
            !.work_sessions = Append(st.work_sessions,
                                     [start |-> st.current_in, end |-> entry.datetime,
                                      duration_minutes |->
                                          DurationMinutes(entry.datetime, st.current_in),
                                      ongoing |-> FALSE]),
            !.last_out = entry.datetime,
            !.current_in = None]
    ELSE [st EXCEPT !.last_out = entry.datetime]

\* one iteration of `for entry in entries`
ProcessEntry(st, entry) ==
    IF entry.type = "In" THEN ProcessIn(st, entry)
    ELSE IF entry.type = "Out" THEN ProcessOut(st, entry)
    ELSE st

\* the whole loop from position j on
RECURSIVE Loop(_, _, _)
Loop(st, es, j) ==
    IF j > Len(es) THEN st ELSE Loop(ProcessEntry(st, es[j]), es, j + 1)

\* ---------------------------------------------------- terminal handling
\* the guard of the clock read
ReadsClock(cin, use) == cin # None /\ use

\* the guard with >= where the code has >
SameDayNotEarlier(ct, cin) == Date(ct) = Date(cin) /\ ct >= cin

\* the guard of the ongoing session
SameDayAndLater(ct, cin) == Date(ct) = Date(cin) /\ ct > cin

OngoingSession(cin, ct) ==
    [start |-> cin, end |-> ct,
     duration_minutes |-> DurationMinutes(ct, cin), ongoing |-> TRUE]

\* a sum that leaves the ongoing session out
RECURSIVE SumCompletedDurations(_, _)
SumCompletedDurations(ws, j) ==
    IF j > Len(ws) THEN 0
    ELSE (IF ws[j].ongoing THEN 0 ELSE ws[j].duration_minutes)
         + SumCompletedDurations(ws, j + 1)

\* sum(session['duration_minutes'] for session in work_sessions)
RECURSIVE SumDurations(_, _)
SumDurations(ws, j) ==
    IF j > Len(ws) THEN 0 ELSE ws[j].duration_minutes + SumDurations(ws, j + 1)

\* total_minutes / 60, kept exact as a fraction
Hours(minutes) == [num |-> minutes, den |-> MinutesPerHour]

\* the dictionary returned for an empty list
EmptySummary ==
    [total_hours |-> [num |-> 0, den |-> 1], total_minutes |-> 0, breaks |-> <<>>,
     first_in |-> None, last_out |-> None, work_sessions |-> <<>>,
     is_currently_working |-> FALSE, current_time |-> None]

\* the dictionary returned after the loop
Summary(ws, brks, fin, lout, working, ct) ==
    LET tm == SumDurations(ws, 1)
    IN  [total_hours |-> Hours(tm), total_minutes |-> tm, breaks |-> brks,
         first_in |-> fin, last_out |-> lout, work_sessions |-> ws,
         is_currently_working |-> working, current_time |-> ct]

\* calculate_work_hours as a function of its arguments and of the value the
\* wall clock gives if it is read
calculate_work_hours(es, use, now) ==
    IF Len(es) = 0 THEN EmptySummary
    ELSE LET st == Loop(InitLocals, Normalize(es), 1)
             rd == ReadsClock(st.current_in, use)
             on == rd /\ SameDayAndLater(now, st.current_in)
         IN  Summary(IF on THEN Append(st.work_sessions, OngoingSession(st.current_in, now))
                           ELSE st.work_sessions,
                     st.breaks, st.first_in, st.last_out, on,
                     IF rd THEN now ELSE None)

\* ------------------------------------------------------------ day status
\* the comparison with > where the code has >=
HoursMoreThan(h, k) == h.num > k * h.den

\* total_hours >= k for the fraction total_hours
HoursAtLeast(h, k) == h.num >= k * h.den

determine_day_status(total_hours) ==
    IF HoursAtLeast(total_hours, FullDayHours) THEN "Full Day"
    ELSE IF HoursAtLeast(total_hours, HalfDayHours) THEN "Half Day"
    ELSE "Incomplete Day"

\* ------------------------------------------------------------------ state
VARIABLES
    input,                \* the list the caller passes (never mutated)
    use_current_time,     \* the parameter
    pc,                   \* position in the program
    entries,              \* the local name entries (rebound at lines 91-92)
    i,                    \* position of the loop in entries
    work_sessions, breaks, current_in, last_out, first_in,
    is_currently_working, current_time,
    clock_reads,          \* number of calls of get_current_ist_time so far
    total_minutes,
    day_status,           \* value of determine_day_status in the report
    result                \* the returned dictionary

vars == <<input, use_current_time, pc, entries, i, work_sessions, breaks,
          current_in, last_out, first_in, is_currently_working, current_time,
          clock_reads, total_minutes, day_status, result>>

NoResult == <<>>

Locals ==
    [work_sessions |-> work_sessions, breaks |-> breaks, current_in |-> current_in,
     last_out |-> last_out, first_in |-> first_in]

\* a call calculate_work_hours(input, use_current_time) with a list of at
\* most n entries
InitCall(n) ==
    /\ input \in SeqsUpTo(Events, n)
    /\ use_current_time \in BOOLEAN
    /\ pc = "start"
    /\ entries = input
    /\ i = 0
    /\ work_sessions = <<>>
    /\ breaks = <<>>
    /\ current_in = None
    /\ last_out = None
    /\ first_in = None
    /\ is_currently_working = FALSE
    /\ current_time = None
    /\ clock_reads = 0
    /\ total_minutes = 0
    /\ day_status = ""
    /\ result = NoResult

Init == InitCall(MaxLen)

\* the early return placed after a read of the clock
ReturnEmptyAfterClockRead ==
    /\ pc = "start"
    /\ Len(entries) = 0
    /\ \E now \in Clock :
         /\ current_time' = (IF use_current_time THEN now ELSE None)
         /\ clock_reads' = (IF use_current_time THEN clock_reads + 1 ELSE clock_reads)
         /\ result' = [EmptySummary EXCEPT !.current_time = current_time']
    /\ pc' = "done"
    /\ UNCHANGED <<input, use_current_time, entries, i, work_sessions, breaks,
                   current_in, last_out, first_in, is_currently_working,
                   total_minutes, day_status>>

\* `if not entries: return {...}`
ReturnEmpty ==
    /\ pc = "start"
    /\ Len(entries) = 0
    /\ result' = EmptySummary
    /\ pc' = "done"
    /\ UNCHANGED <<input, use_current_time, entries, i, work_sessions, breaks,
                   current_in, last_out, first_in, is_currently_working,
                   current_time, clock_reads, total_minutes, day_status>>

\* sort, remove duplicates, initialise the locals
Begin ==
    /\ pc = "start"
    /\ Len(entries) > 0
    /\ entries' = Normalize(entries)
    /\ work_sessions' = InitLocals.work_sessions
    /\ breaks' = InitLocals.breaks
    /\ current_in' = InitLocals.current_in
    /\ last_out' = InitLocals.last_out
    /\ first_in' = InitLocals.first_in
    /\ i' = 1
    /\ pc' = "loop"
    /\ UNCHANGED <<input, use_current_time, is_currently_working, current_time,
                   clock_reads, total_minutes, day_status, result>>

\* one iteration of the loop on entries[i]
Iterate ==
    LET st == ProcessEntry(Locals, entries[i])
    IN  /\ work_sessions' = st.work_sessions
        /\ breaks' = st.breaks
        /\ current_in' = st.current_in
        /\ last_out' = st.last_out
        /\ first_in' = st.first_in
        /\ i' = i + 1
        /\ UNCHANGED <<input, use_current_time, pc, entries, is_currently_working,
                       current_time, clock_reads, total_minutes, day_status, result>>

AtEntry(kind) == pc = "loop" /\ i <= Len(entries) /\ entries[i].type = kind

InWhileIdle == AtEntry("In") /\ current_in = None /\ Iterate
InWhileOpen == AtEntry("In") /\ current_in # None /\ Iterate
OutWhileOpen == AtEntry("Out") /\ current_in # None /\ Iterate
OutWhileIdle == AtEntry("Out") /\ current_in = None /\ Iterate

\* the terminal handling with a second read of the clock for the end of the
\* ongoing session
FinishWithClockReadTwice ==
    /\ pc = "loop"
    /\ i > Len(entries)
    /\ ReadsClock(current_in, use_current_time)
    /\ \E now, again \in Clock :
         LET on == SameDayAndLater(now, current_in)
             ws == IF on THEN Append(work_sessions, OngoingSession(current_in, again))
                         ELSE work_sessions
         IN  /\ current_time' = now
             /\ clock_reads' = clock_reads + (IF on THEN 2 ELSE 1)
             /\ work_sessions' = ws
             /\ is_currently_working' = on
             /\ total_minutes' = SumDurations(ws, 1)
             /\ result' = Summary(ws, breaks, first_in, last_out, on, now)
    /\ pc' = "done"
    /\ UNCHANGED <<input, use_current_time, entries, i, breaks, current_in,
                   last_out, first_in, day_status>>

\* after the loop, when the clock is read: the ongoing session if the
\* reading allows it, then the totals and the return
FinishWithClock ==
    /\ pc = "loop"
    /\ i > Len(entries)
    /\ ReadsClock(current_in, use_current_time)
    /\ \E now \in Clock :
         LET on == SameDayAndLater(now, current_in)
             ws == IF on THEN Append(work_sessions, OngoingSession(current_in, now))
                         ELSE work_sessions
         IN  /\ current_time' = now
             /\ clock_reads' = clock_reads + 1
             /\ work_sessions' = ws
             /\ is_currently_working' = on
             /\ total_minutes' = SumDurations(ws, 1)
             /\ result' = Summary(ws, breaks, first_in, last_out, on, now)
    /\ pc' = "done"
    /\ UNCHANGED <<input, use_current_time, entries, i, breaks, current_in,
                   last_out, first_in, day_status>>

\* after the loop, when the clock is not read: the totals and the return
FinishWithoutClock ==
    /\ pc = "loop"
    /\ i > Len(entries)
    /\ ~ReadsClock(current_in, use_current_time)
    /\ is_currently_working' = FALSE
    /\ current_time' = None
    /\ total_minutes' = SumDurations(work_sessions, 1)
    /\ result' = Summary(work_sessions, breaks, first_in, last_out, FALSE, None)
    /\ pc' = "done"
    /\ UNCHANGED <<input, use_current_time, entries, i, work_sessions, breaks,
                   current_in, last_out, first_in, clock_reads, day_status>>

Next ==
    \/ ReturnEmpty
    \/ Begin
    \/ InWhileIdle
    \/ InWhileOpen
    \/ OutWhileOpen
    \/ OutWhileIdle
    \/ FinishWithClock
    \/ FinishWithoutClock

Spec == Init /\ [][Next]_vars

\* the same program on the shorter lists whose permutations are compared
InitPerm == InitCall(MaxPermLen)
SpecPerm == InitPerm /\ [][Next]_vars

\* the report's classification of a total: determine_day_status(total_hours)
\* with total_hours = total_minutes / 60
InitStatus ==
    /\ total_minutes \in 0..MaxTotal
    /\ pc = "report"
    /\ input = <<>>
    /\ use_current_time = FALSE
    /\ entries = <<>>
    /\ i = 0
    /\ work_sessions = <<>>
    /\ breaks = <<>>
    /\ current_in = None
    /\ last_out = None
    /\ first_in = None
    /\ is_currently_working = FALSE
    /\ current_time = None
    /\ clock_reads = 0
    /\ day_status = ""
    /\ result = NoResult

DayStatus ==
    /\ pc = "report"
    /\ day_status' = determine_day_status(Hours(total_minutes))
    /\ pc' = "reported"
    /\ UNCHANGED <<input, use_current_time, entries, i, work_sessions, breaks,
                   current_in, last_out, first_in, is_currently_working,
                   current_time, clock_reads, total_minutes, result>>

NextStatus == DayStatus
SpecStatus == InitStatus /\ [][NextStatus]_vars

\* ================================================================ claims
Done == pc = "done"

\* sum of duration_minutes over the first n sessions of ws
RECURSIVE TotalOfFirst(_, _)
TotalOfFirst(ws, n) ==
    IF n = 0 THEN 0 ELSE TotalOfFirst(ws, n - 1) + ws[n].duration_minutes

\* the sessions the loop leaves for the normalized entries
Completed == Loop(InitLocals, entries, 1).work_sessions

\* C1: the returned total_minutes is the sum of duration_minutes over all
\* returned work sessions, the ongoing one included.
C1_TotalIsSumOfSessions ==
    Done => result.total_minutes
              = TotalOfFirst(result.work_sessions, Len(result.work_sessions))

\* a return with completed sessions and an ongoing one, all counted
C1_Witness ==
    /\ Done
    /\ result.is_currently_working
    /\ Len(result.work_sessions) >= 2
    /\ result.work_sessions[Len(result.work_sessions)].duration_minutes >= 1
    /\ result.total_minutes >= 2

\* datetimes of the Out entries of es that the loop meets with no open In
OrphanOuts(es) ==
    {es[j].datetime : j \in {k \in 1..Len(es) :
        /\ es[k].type = "Out"
        /\ Loop(InitLocals, SubSeq(es, 1, k - 1), 1).current_in = None}}

\* C2 as stated: every returned break starts at the end of a returned session
\* and ends at the start of a later returned session.
C2_BreakFlankedBySessions ==
    Done =>
      \A m \in 1..Len(result.breaks) :
        \E k, j \in 1..Len(result.work_sessions) :
          /\ k < j
          /\ result.work_sessions[k].end = result.breaks[m].start
          /\ result.work_sessions[j].start = result.breaks[m].end

\* C2 as amended: every returned break starts at the end of a returned
\* completed session or at an Out that found no In open, and ends at the start
\* of a later returned session or at the In that is still open, without an
\* ongoing session, when the pass ends.
C2_BreakBounds ==
    Done =>
      \A m \in 1..Len(result.breaks) :
        LET b == result.breaks[m]
            ws == result.work_sessions
            before == {k \in 1..Len(ws) : ~ws[k].ongoing /\ ws[k].end = b.start}
            after == {j \in 1..Len(ws) : ws[j].start = b.end /\ \A k \in before : k < j}
        IN  /\ before # {} \/ b.start \in OrphanOuts(entries)
            /\ after # {} \/ (b.end = current_in /\ ~result.is_currently_working)

\* a return with a break that follows an Out without session and a break that
\* ends at an In left open
C2_Witness ==
    /\ Done
    /\ Len(result.breaks) >= 2
    /\ result.breaks[1].start \in OrphanOuts(entries)
    /\ result.breaks[Len(result.breaks)].end = current_in
    /\ ~result.is_currently_working
    /\ Len(result.work_sessions) >= 1

\* the condition under which the ongoing session is added
OngoingCondition ==
    /\ current_in # None
    /\ use_current_time
    /\ Date(current_time) = Date(current_in)
    /\ current_time > current_in

\* C3: the ongoing session (open In -> clock reading, ongoing) is added and
\* is_currently_working is true exactly when the pass ends with an open In,
\* use_current_time is set, and the reading is on the date of the open In and
\* strictly after it; otherwise the sessions are those of the loop, none is
\* ongoing, is_currently_working is false and the open In adds nothing to the
\* total.
C3_OngoingIff ==
    Done =>
      LET ws == result.work_sessions
      IN  /\ result.is_currently_working <=> OngoingCondition
          /\ \A k \in 1..Len(Completed) : ~Completed[k].ongoing
          /\ OngoingCondition =>
               /\ ws = Append(Completed,
                              [start |-> current_in, end |-> current_time,
                               duration_minutes |-> current_time - current_in,
                               ongoing |-> TRUE])
               /\ result.current_time = current_time
               /\ clock_reads = 1
          /\ ~OngoingCondition =>
               /\ ws = Completed
               /\ result.total_minutes = TotalOfFirst(Completed, Len(Completed))

\* a return with the ongoing session added after a completed one
C3_Witness ==
    /\ Done
    /\ OngoingCondition
    /\ result.is_currently_working
    /\ Len(Completed) = 1
    /\ Len(result.work_sessions) = 2

\* es is In, Out, In, Out, ... with strictly increasing datetimes
IsAlternating(es) ==
    /\ Len(es) > 0
    /\ Len(es) % 2 = 0
    /\ \A j \in 1..Len(es) : es[j].type = IF j % 2 = 1 THEN "In" ELSE "Out"
    /\ \A j \in 1..Len(es) - 1 : es[j].datetime < es[j + 1].datetime

RECURSIVE BreakTotalOfFirst(_, _)
BreakTotalOfFirst(bs, n) ==
    IF n = 0 THEN 0 ELSE BreakTotalOfFirst(bs, n - 1) + bs[n].duration_minutes

\* C4: for 2n events In, Out, In, Out, ... with strictly increasing datetimes
\* the result has exactly n completed sessions, the k-th from the k-th In to
\* the k-th Out, exactly n-1 breaks, the k-th from the k-th Out to the
\* (k+1)-th In, is_currently_working false, and total_minutes plus the breaks'
\* minutes equal to last Out minus first In.
C4_AlternatingPairs ==
    (Done /\ IsAlternating(input)) =>
      LET n == Len(input) \div 2
          ws == result.work_sessions
          bs == result.breaks
      IN  /\ Len(ws) = n
          /\ \A k \in 1..n :
               ws[k] = [start |-> input[2 * k - 1].datetime,
                        end |-> input[2 * k].datetime,
                        duration_minutes |->
                            input[2 * k].datetime - input[2 * k - 1].datetime,
                        ongoing |-> FALSE]
          /\ Len(bs) = n - 1
          /\ \A k \in 1..(n - 1) :
               bs[k] = [start |-> input[2 * k].datetime,
                        end |-> input[2 * k + 1].datetime,
                        duration_minutes |->
                            input[2 * k + 1].datetime - input[2 * k].datetime]
          /\ ~result.is_currently_working
          /\ result.total_minutes = TotalOfFirst(ws, n)
          /\ result.total_minutes + BreakTotalOfFirst(bs, n - 1)
               = input[Len(input)].datetime - input[1].datetime
          /\ clock_reads = 0

\* a return for In, Out, In, Out: two sessions and one break
C4_Witness ==
    /\ Done
    /\ IsAlternating(input)
    /\ Len(input) = 4
    /\ Len(result.work_sessions) = 2
    /\ Len(result.breaks) = 1

\* the permutations of the list es
Perms(es) ==
    LET n == Len(es)
        bij == {f \in [1..n -> 1..n] : \A a, b \in 1..n : f[a] = f[b] => a = b}
    IN  {[j \in 1..n |-> es[f[j]]] : f \in bij}

\* positions of the events (t, kind) in es
Positions(es, t, kind) ==
    {j \in 1..Len(es) : es[j].datetime = t /\ es[j].type = kind}

\* p and q agree, at every datetime that carries an In and an Out, on which
\* of the two comes first
SameTieOrder(p, q) ==
    \A t \in Times :
      (Positions(q, t, "In") # {} /\ Positions(q, t, "Out") # {}) =>
        ((Min(Positions(p, t, "In")) < Min(Positions(p, t, "Out")))
           <=> (Min(Positions(q, t, "In")) < Min(Positions(q, t, "Out"))))

\* the clock readings a second call is compared under: the one this call
\* read, or any when it read none
Readings == IF clock_reads > 0 THEN {current_time} ELSE Clock

\* C5 as stated: every permutation of the input gives, for the same clock
\* reading, the same returned Summary.
C5_OrderIrrelevant ==
    Done =>
      \A p \in Perms(input) : \A now \in Readings :
        calculate_work_hours(p, use_current_time, now) = result

\* C5 as amended: every permutation of the input that agrees with it, at each
\* datetime carrying both an In and an Out, on which of the two comes first
\* gives, for the same clock reading, the same returned Summary.
C5_OrderIrrelevantUpToTies ==
    Done =>
      \A p \in Perms(input) :
        SameTieOrder(p, input) =>
          \A now \in Readings :
            calculate_work_hours(p, use_current_time, now) = result

\* a return for an unsorted list with a duplicate, from which a session and
\* a break are made
C5_Witness ==
    /\ Done
    /\ Len(input) = MaxPermLen
    /\ \E j \in 1..(Len(input) - 1) : input[j].datetime > input[j + 1].datetime
    /\ \E t \in Times : Positions(input, t, "In") # {} /\ Positions(input, t, "Out") # {}
    /\ Len(result.work_sessions) >= 1
    /\ clock_reads = 1

Normalized == pc \in {"loop", "done"} /\ Len(input) > 0

\* C6: the normalized entries are non-decreasing in datetime, hold no
\* (datetime, type) twice, hold exactly the (datetime, type) pairs of the
\* input, and order the entries of one datetime by the input position of
\* their first occurrence.
C6_NormalForm ==
    Normalized =>
      /\ \A j \in 1..(Len(entries) - 1) : entries[j].datetime <= entries[j + 1].datetime
      /\ \A j, k \in 1..Len(entries) :
           (j # k) => <<entries[j].datetime, entries[j].type>>
                        # <<entries[k].datetime, entries[k].type>>
      /\ {<<entries[j].datetime, entries[j].type>> : j \in 1..Len(entries)}
           = {<<input[j].datetime, input[j].type>> : j \in 1..Len(input)}
      /\ \A j, k \in 1..Len(entries) :
           (j < k /\ entries[j].datetime = entries[k].datetime) =>
             Min(Positions(input, entries[j].datetime, entries[j].type))
               < Min(Positions(input, entries[k].datetime, entries[k].type))

\* the normalization of an unsorted list with a duplicate and with an In and
\* an Out of one datetime
C6_Witness ==
    /\ pc = "loop"
    /\ i = 1
    /\ Len(entries) < Len(input)
    /\ \E j \in 1..(Len(input) - 1) : input[j].datetime > input[j + 1].datetime
    /\ \E j \in 1..(Len(entries) - 1) : entries[j].datetime = entries[j + 1].datetime

\* C7: sorting and removing duplicates again leaves the normalized entries as
\* they are, element for element.
C7_NormalizeIdempotent ==
    Normalized =>
      /\ Normalize(entries) = entries
      /\ Len(Normalize(entries)) = Len(entries)
      /\ \A j \in 1..Len(entries) : Normalize(entries)[j] = entries[j]

\* normalized entries that differ from the input and hold an Out before an
\* In of the same datetime
C7_Witness ==
    /\ pc = "loop"
    /\ i = 1
    /\ entries # input
    /\ \E j \in 1..(Len(entries) - 1) :
         /\ entries[j].datetime = entries[j + 1].datetime
         /\ entries[j].type = "Out"
         /\ entries[j + 1].type = "In"

\* C8: with a whole number of minutes the status is "Full Day" exactly from
\* 480 minutes on, "Half Day" exactly from 240 to 479, "Incomplete Day"
\* exactly below 240; it is always one of the three.
C8_StatusThresholds ==
    (pc = "reported") =>
      /\ day_status \in {"Full Day", "Half Day", "Incomplete Day"}
      /\ (day_status = "Full Day") <=> (total_minutes >= 480)
      /\ (day_status = "Half Day") <=> (240 <= total_minutes /\ total_minutes < 480)
      /\ (day_status = "Incomplete Day") <=> (total_minutes < 240)

\* the status of exactly 480 minutes
C8_Witness ==
    /\ pc = "reported"
    /\ total_minutes = 480
    /\ day_status = "Full Day"

\* C9: for an empty list the result has first_in, last_out and current_time
\* absent, no sessions, no breaks, zero totals and is_currently_working false,
\* with use_current_time set or not, and the clock is not read.
C9_EmptyInput ==
    (Done /\ Len(input) = 0) =>
      /\ result.first_in = None
      /\ result.last_out = None
      /\ result.current_time = None
      /\ result.work_sessions = <<>>
      /\ result.breaks = <<>>
      /\ result.total_minutes = 0
      /\ result.total_hours.num = 0
      /\ result.is_currently_working = FALSE
      /\ clock_reads = 0
      /\ current_time = None

\* the return for an empty list with use_current_time set
C9_Witness ==
    /\ Done
    /\ Len(input) = 0
    /\ use_current_time
    /\ result.total_minutes = 0

\* the step on an Out met with no In open
OutWhileIdleFrame ==
    (AtEntry("Out") /\ current_in = None) =>
      /\ last_out' = entries[i].datetime
      /\ current_in' = None
      /\ UNCHANGED <<work_sessions, breaks, first_in, is_currently_working,
                     current_time, clock_reads, total_minutes, result, entries,
                     input, use_current_time, pc>>

OnlyOuts(es) == Len(es) > 0 /\ \A j \in 1..Len(es) : es[j].type = "Out"

\* C10: the step on an Out with no In open sets last_out to its datetime and
\* leaves the sessions, the breaks, first_in and the idle state as they are;
\* a list of Out events only returns no session, no break, total_minutes 0
\* and last_out set.
C10_OutWhileIdle ==
    /\ [][OutWhileIdleFrame]_vars
    /\ [](Done /\ OnlyOuts(input) =>
            /\ result.work_sessions = <<>>
            /\ result.breaks = <<>>
            /\ result.total_minutes = 0
            /\ result.first_in = None
            /\ result.last_out = Max({input[j].datetime : j \in 1..Len(input)}))

\* the loop just after the second of two consecutive Outs that follow a
\* completed session
C10_Witness ==
    /\ pc = "loop"
    /\ i >= 3
    /\ entries[i - 1].type = "Out"
    /\ entries[i - 2].type = "Out"
    /\ last_out = entries[i - 1].datetime
    /\ current_in = None
    /\ Len(work_sessions) = 1
    /\ first_in # None

\* the step on an In met while an In is open
InWhileOpenFrame ==
    (AtEntry("In") /\ current_in # None) =>
      UNCHANGED <<current_in, first_in, last_out, work_sessions, breaks,
                  is_currently_working, current_time, clock_reads, total_minutes,
                  result, entries, input, use_current_time, pc>>

\* the completed session s runs from the first In of a run of consecutive
\* Ins of es to the Out that ends the run
FromFirstInOfRun(s, es) ==
    \E p, q \in 1..Len(es) :
      /\ p < q
      /\ es[p].type = "In" /\ es[p].datetime = s.start
      /\ es[q].type = "Out" /\ es[q].datetime = s.end
      /\ \A r \in (p + 1)..(q - 1) : es[r].type = "In"
      /\ p = 1 \/ es[p - 1].type = "Out"

\* C11: the step on an In while an In is open changes neither the open In
\* nor first_in, last_out, the sessions or the breaks; so every completed
\* session starts at the first In of its run of consecutive Ins.
C11_InWhileOpenNoOp ==
    /\ [][InWhileOpenFrame]_vars
    /\ [](Done =>
            \A k \in 1..Len(result.work_sessions) :
              ~result.work_sessions[k].ongoing =>
                FromFirstInOfRun(result.work_sessions[k], entries))

\* the loop just after an In that followed an Out and an In: the open In is
\* still the earlier one
C11_Witness ==
    /\ pc = "loop"
    /\ i >= 4
    /\ entries[i - 1].type = "In"
    /\ entries[i - 2].type = "In"
    /\ entries[i - 3].type = "Out"
    /\ current_in = entries[i - 2].datetime
    /\ current_in < entries[i - 1].datetime
    /\ last_out # None

\* C12: every returned session starts at the datetime of an In of the input
\* and ends at the datetime of an Out of the input processed after that In
\* (ongoing false) or at the clock reading (ongoing true); start <= end and
\* duration_minutes = end - start >= 0.
C12_SessionBounds ==
    Done =>
      \A k \in 1..Len(result.work_sessions) :
        LET s == result.work_sessions[k]
        IN  /\ Positions(input, s.start, "In") # {}
            /\ IF s.ongoing
               THEN clock_reads = 1 /\ s.end = current_time
               ELSE /\ Positions(input, s.end, "Out") # {}
                    /\ \E p, q \in 1..Len(entries) :
                         /\ p < q
                         /\ entries[p].type = "In" /\ entries[p].datetime = s.start
                         /\ entries[q].type = "Out" /\ entries[q].datetime = s.end
            /\ s.start <= s.end
            /\ s.duration_minutes = s.end - s.start
            /\ s.duration_minutes >= 0

\* a return with a session of no length followed by an ongoing one
C12_Witness ==
    /\ Done
    /\ Len(result.work_sessions) = 2
    /\ result.work_sessions[1].start = result.work_sessions[1].end
    /\ ~result.work_sessions[1].ongoing
    /\ result.work_sessions[2].ongoing
    /\ result.work_sessions[2].duration_minutes >= 1

\* the case in which the loop emits a break
EmitsBreak == AtEntry("In") /\ current_in = None /\ last_out # None

BreakStep ==
    /\ (breaks' # breaks) <=> EmitsBreak
    /\ EmitsBreak =>
         breaks' = Append(breaks,
                          [start |-> last_out, end |-> entries[i].datetime,
                           duration_minutes |-> entries[i].datetime - last_out])

\* C13: a break is emitted exactly by the step on an In with no In open and
\* last_out set; every returned break starts at the datetime of an Out of the
\* input, ends at the datetime of an In of the input, has start <= end and
\* duration_minutes = end - start >= 0.
C13_BreakEmission ==
    /\ [][BreakStep]_vars
    /\ [](Done =>
            \A m \in 1..Len(result.breaks) :
              LET b == result.breaks[m]
              IN  /\ Positions(input, b.start, "Out") # {}
                  /\ Positions(input, b.end, "In") # {}
                  /\ b.start <= b.end
                  /\ b.duration_minutes = b.end - b.start
                  /\ b.duration_minutes >= 0)

\* the loop just after an In that followed an Out: the break between them
\* is the last of the breaks
C13_Witness ==
    /\ pc = "loop"
    /\ i >= 3
    /\ entries[i - 1].type = "In"
    /\ entries[i - 2].type = "Out"
    /\ Len(breaks) >= 1
    /\ breaks[Len(breaks)].start = entries[i - 2].datetime
    /\ breaks[Len(breaks)].end = entries[i - 1].datetime
    /\ breaks[Len(breaks)].duration_minutes >= 1
    /\ Len(work_sessions) >= 1

\* a step that reads the clock
ClockStep ==
    (clock_reads' # clock_reads) =>
      /\ pc = "loop"
      /\ i > Len(entries)
      /\ current_in # None
      /\ use_current_time
      /\ clock_reads = 0
      /\ clock_reads' = 1
      /\ current_time' \in Clock

\* C14: in one call the clock is read at most once and only after the loop
\* has consumed all entries; the value read is the one compared with the open
\* In (date and strictly later), the end of the ongoing session and the
\* returned current_time; it is not read when use_current_time is false or no
\* In is open after the loop.
C14_ClockReadOnce ==
    /\ [][ClockStep]_vars
    /\ [](clock_reads <= 1)
    /\ [](Done =>
            /\ (~use_current_time \/ current_in = None) => clock_reads = 0
            /\ (clock_reads = 1) =>
                 /\ result.current_time = current_time
                 /\ result.is_currently_working
                      <=> (Date(current_time) = Date(current_in)
                             /\ current_time > current_in)
                 /\ result.is_currently_working =>
                      LET s == result.work_sessions[Len(result.work_sessions)]
                      IN  /\ s.ongoing
                          /\ s.start = current_in
                          /\ s.end = current_time
                          /\ s.duration_minutes = current_time - current_in)

\* a return after one read of the clock, with a break and the ongoing session
\* ending at the value read
C14_Witness ==
    /\ Done
    /\ clock_reads = 1
    /\ result.is_currently_working
    /\ Len(result.breaks) >= 1
    /\ result.work_sessions[Len(result.work_sessions)].end = result.current_time

\* C15 as stated: the returned current_time is set exactly when
\* is_currently_working is true.
C15_CurrentTimeIffWorking ==
    Done => ((result.current_time # None) <=> result.is_currently_working)

\* es with a copy of es[k] put at position p (1..Len(es)+1)
InsertCopy(es, k, p) ==
    [j \in 1..(Len(es) + 1) |->
        IF j < p THEN es[j] ELSE IF j = p THEN es[k] ELSE es[j - 1]]

\* C16 as stated: a further copy of an event of the input, put at any
\* position, leaves the returned Summary as it is.
C16_DuplicateAnywhere ==
    Done =>
      \A k \in 1..Len(input) : \A p \in 1..(Len(input) + 1) :
        \A now \in Readings :
          calculate_work_hours(InsertCopy(input, k, p), use_current_time, now) = result

\* C16 as amended: a further copy of an event of the input leaves the
\* returned Summary as it is when it is put at a position that keeps, at its
\* datetime, the same kind first among In and Out.
C16_DuplicateKeepingTieOrder ==
    Done =>
      \A k \in 1..Len(input) : \A p \in 1..(Len(input) + 1) :
        SameTieOrder(InsertCopy(input, k, p), input) =>
          \A now \in Readings :
            calculate_work_hours(InsertCopy(input, k, p), use_current_time, now) = result

\* a return with a session, a break and a clock read, for a list whose
\* copies are put at every position
C16_Witness ==
    /\ Done
    /\ Len(input) = MaxPermLen
    /\ Len(result.work_sessions) >= 1
    /\ Len(result.breaks) >= 1
    /\ clock_reads = 1
    /\ \E t \in Times : Positions(input, t, "In") # {} /\ Positions(input, t, "Out") # {}

DatetimesOf(es, kind) == {es[j].datetime : j \in {k \in 1..Len(es) : es[k].type = kind}}

\* C17: for a non-empty input the returned first_in is the least datetime of
\* the In events of the input, absent when there is none, and the returned
\* last_out is the greatest datetime of its Out events, absent when there is
\* none, paired into sessions or not.
C17_FirstInLastOut ==
    (Done /\ Len(input) > 0) =>
      /\ result.first_in = IF DatetimesOf(input, "In") = {} THEN None
                           ELSE Min(DatetimesOf(input, "In"))
      /\ result.last_out = IF DatetimesOf(input, "Out") = {} THEN None
                           ELSE Max(DatetimesOf(input, "Out"))

\* a return whose last_out is earlier than its first_in, for a list with In
\* events of two datetimes
C17_Witness ==
    /\ Done
    /\ result.first_in # None
    /\ result.last_out # None
    /\ result.last_out < result.first_in
    /\ Cardinality(DatetimesOf(input, "In")) >= 2

\* C18: consecutive returned sessions s, t have s.end <= t.start; at most one
\* session is ongoing, it is the last of the list and starts no earlier than
\* the end of every completed session.
C18_SessionsOrdered ==
    Done =>
      LET ws == result.work_sessions
          n == Len(ws)
      IN  /\ \A k \in 1..(n - 1) : ws[k].end <= ws[k + 1].start
          /\ Cardinality({k \in 1..n : ws[k].ongoing}) <= 1
          /\ \A k \in 1..n : ws[k].ongoing =>
               /\ k = n
               /\ \A j \in 1..(n - 1) : ws[j].end <= ws[k].start

\* a return with two completed sessions of different datetimes
C18_Witness ==
    /\ Done
    /\ Len(result.work_sessions) = 2
    /\ ~result.work_sessions[2].ongoing
    /\ result.work_sessions[1].end < result.work_sessions[2].start
    /\ result.work_sessions[1].start < result.work_sessions[1].end

====
